---- MODULE Spec2Model ----
(***************************************************************************)
(* Two-Assistant Mediator: the turn-control loop of the CLI controller     *)
(* (assistant_mediator.py, main) and of the Streamlit controller           *)
(* (streamlit_app.py, the Start handler), with the pattern matcher, the    *)
(* prompt construction, the transcript and its export.                     *)
(*                                                                         *)
(* A text is a sequence of tokens.  A token is a word, or WS, a run of     *)
(* whitespace other than the single blank that separates two words.        *)
(* A Generator call is one step that issues the request (logged in calls)  *)
(* and one step in which it returns a text or raises.                      *)
(***************************************************************************)
EXTENDS Integers, Sequences, FiniteSets, TLC

\* ---------------------------------------------------------------- bounds
MaxTurns == 2      \* largest max_turns tried
MaxRuns  == 2      \* runs started in one behaviour
MaxCarry == 2      \* longest session transcript a further Start is tried on

\* ---------------------------------------------------------------- texts
WS == " "

\* str.lower() on the vocabulary of the modelled replies (re.IGNORECASE)
Lower(w) ==
    CASE w = "I"        -> "i"
      [] w = "ACCEPT"   -> "accept"
      [] w = "This"     -> "this"
      [] w = "Not"      -> "not"
      [] OTHER          -> w

RECURSIVE LStrip(_)
LStrip(t) == IF t # <<>> /\ Head(t) = WS THEN LStrip(Tail(t)) ELSE t

RECURSIVE RStrip(_)
RStrip(t) ==
    IF t # <<>> /\ t[Len(t)] = WS THEN RStrip(SubSeq(t, 1, Len(t) - 1)) ELSE t

\* str.strip() applied to the returned content
Strip(t) == RStrip(LStrip(t))

\* A pattern is a sequence of alternatives, one set of lower-case words per
\* position; the words of a pattern are separated by exactly one blank.
ACCEPT_PATTERNS ==
    << << {"i"}, {"am"}, {"convinced"} >>,
       << {"i"}, {"accept"}, {"this"}, {"idea"} >>,
       << {"this"}, {"is"}, {"feasible", "profitable"} >>,
       << {"i"}, {"agree"}, {"to"}, {"proceed"} >> >>

REJECT_PATTERNS ==
    << << {"i"}, {"reject"}, {"this"}, {"idea"} >>,
       << {"this"}, {"won't"}, {"work"} >>,
       << {"not"}, {"acceptable"} >>,
       << {"i"}, {"am"}, {"not"}, {"convinced"} >> >>

\* re.search(pat, text, flags=re.IGNORECASE): pat occurs at some offset
Search(pat, text) ==
    \E s \in 0..(Len(text) - Len(pat)) :
        \A j \in 1..Len(pat) : Lower(text[s + j]) \in pat[j]

is_match(text, patterns) ==
    \E p \in 1..Len(patterns) : Search(patterns[p], text)

\* What the Generator may return, before strip().
ConsultantRaw ==
    { << "idea", "A" >>,
      << WS, "idea", "B", WS >> }

CustomerRaw ==
    { << "I", "am", "convinced" >>,
      << WS, "i", "ACCEPT", "this", "idea", WS >>,
      << "I", "reject", "this", "idea", "because", "cost" >>,
      << "I", "am", "not", "convinced" >>,
      << "I", "am", "convinced", "but", "This", "won't", "work" >>,
      << "this", "is", WS, "feasible" >>,
      << "what", "about", "cost" >>,
      << WS >> }

\* ---------------------------------------------------------------- prompts
\* A user prompt is a fixed instruction followed by the text it carries.
ProposePrompt == [instr |-> "propose_single_best_idea", body |-> <<>>]
\* EvaluatePrompt without the proposal appended
EvaluatePromptBare(proposal) == [instr |-> "challenge_proposal", body |-> <<>>]

EvaluatePrompt(proposal)  == [instr |-> "challenge_proposal", body |-> proposal]
NewIdeaPrompt(reply)      == [instr |-> "propose_different_idea", body |-> reply]
RefinePrompt(reply)       == [instr |-> "refine_same_idea", body |-> reply]
NoPrompt == [instr |-> "unset", body |-> <<>>]

Call(role, prompt) == [role |-> role, prompt |-> prompt]

\* Entry with every reply tagged as the Consultant's
EntryAsConsultant(role, content) == [role |-> "consultant", content |-> content]

Entry(role, content) == [role |-> role, content |-> content]


\* ---------------------------------------------------------------- export
\* json.dump(transcript): one {role, content} object per entry, in order
ExportJson(t) == [i \in 1..Len(t) |-> << "role", t[i].role, "content", t[i].content >>]

\* ExportMd with the role compared against the capitalised label
ExportMdMislabelled(t) ==
    [i \in 1..Len(t) |->
        [heading |-> IF t[i].role = "Consultant" THEN "Consultant" ELSE "Customer",
         body    |-> t[i].content]]

\* the Markdown document: one "## <Speaker>" section per entry, in order
ExportMd(t) ==
    [i \in 1..Len(t) |->
        [heading |-> IF t[i].role = "consultant" THEN "Consultant" ELSE "Customer",
         body    |-> t[i].content]]

Export(t) == [json |-> ExportJson(t), md |-> ExportMd(t)]
\* nothing written / no download button: both are produced only from a
\* transcript that has entries
NoExport == [json |-> <<>>, md |-> <<>>]

\* ---------------------------------------------------------------- state
VARIABLES
    ctl,              \* which controller runs: "cli" or "st"
    pc,               \* position of the controller
    max_turns,        \* MAX_TURNS / the sidebar's max_turns
    turn,             \* loop counter
    transcript,       \* main's list / st.session_state["transcript"]
    consultant_reply, \* current idea
    customer_reply,   \* last Customer reply
    consultant_user,  \* last in-loop Consultant prompt built
    accepted,         \* Streamlit flag
    rejected,         \* Streamlit flag
    output,           \* status messages shown by the current run
    exported,         \* files written (CLI) / data of the download buttons (Streamlit)
    calls,            \* Generator requests issued by the current run, in order
    run_base,         \* length of the transcript when the current run started
    runs,             \* number of runs started
    history           \* (outcome, status messages) of the finished runs

vars == << ctl, pc, max_turns, turn, transcript, consultant_reply, customer_reply,
           consultant_user, accepted, rejected, output, exported, calls,
           run_base, runs, history >>

Controllers == {"cli", "st"}
Awaiting == {"await_first", "await_customer", "await_consultant"}
Ended == {"done", "failed"}

\* int(os.getenv("MAX_TURNS", "12")) is any integer; the number_input has min_value=1
MaxTurnsValues(c) == IF c = "cli" THEN (-1)..MaxTurns ELSE 1..MaxTurns

MSG_ACCEPTED == "Customer accepted the idea."
MSG_SAVED    == "Transcript saved to: <base>.json and <base>.md"
MSG_FINISHED == "Dialogue finished."
MSG_STOPPED  == "Stopped by max turns."

Init ==
    /\ ctl \in Controllers
    /\ pc = "idle"
    /\ max_turns \in MaxTurnsValues(ctl)
    /\ turn = 0
    /\ transcript = <<>>
    /\ consultant_reply = <<>>
    /\ customer_reply = <<>>
    /\ consultant_user = NoPrompt
    /\ accepted = FALSE
    /\ rejected = FALSE
    /\ output = <<>>
    /\ exported = NoExport
    /\ calls = <<>>
    /\ run_base = 0
    /\ runs = 0
    /\ history = <<>>

\* ---------------------------------------------------------------- the loop
\* Accepts with Reject given priority over Accept
AcceptsUnlessRejects(reply) ==
    is_match(reply, ACCEPT_PATTERNS) /\ ~is_match(reply, REJECT_PATTERNS)

Accepts(reply) == is_match(reply, ACCEPT_PATTERNS)
Rejects(reply) == is_match(reply, REJECT_PATTERNS)

\* LoopCond with the budget test off by one
LoopCondInclusive(c, t, n, acc, rej) ==
    IF c = "cli" THEN t <= n ELSE t <= n /\ ~(acc \/ rej)

\* LoopCond with the CLI's budget test alone off by one
LoopCondCliInclusive(c, t, n, acc, rej) ==
    IF c = "cli" THEN t <= n ELSE t < n /\ ~(acc \/ rej)

\* while turn < MAX_TURNS                                   (CLI)
\* while turn < max_turns and not (accepted or rejected)    (Streamlit)
LoopCond(c, t, n, acc, rej) ==
    IF c = "cli" THEN t < n ELSE t < n /\ ~(acc \/ rej)

\* ConsultantPrompt that asks for a refinement whatever the classification
ConsultantPromptRefineOnly(c, reply, acc, rej, old) == RefinePrompt(reply)

\* ConsultantPrompt with the two branches exchanged
ConsultantPromptSwapped(c, reply, acc, rej, old) ==
    IF rej THEN RefinePrompt(reply)
    ELSE IF c = "cli" \/ ~acc THEN NewIdeaPrompt(reply)
    ELSE old

\* the if / else (CLI) and if / elif (Streamlit) that builds consultant_user;
\* old is the value consultant_user keeps when no branch assigns it
ConsultantPrompt(c, reply, acc, rej, old) ==
    IF rej THEN NewIdeaPrompt(reply)
    ELSE IF c = "cli" \/ ~acc THEN RefinePrompt(reply)
    ELSE old

\* AsksConsultant with the test inverted
AsksConsultantOnAccept(acc) == acc

\* AsksConsultant without the break / the guard
AsksConsultantAlways(acc) == TRUE

\* the Consultant is called after a Customer reply unless the reply accepts:
\* break (CLI), if not accepted (Streamlit)
AsksConsultant(acc) == ~acc

\* the status of a run whose loop has ended
Outcome(c, out, acc, rej) ==
    IF c = "cli"
    THEN IF \E i \in 1..Len(out) : out[i] = MSG_ACCEPTED THEN "accepted" ELSE "exhausted"
    ELSE IF acc THEN "accepted" ELSE IF rej THEN "rejected" ELSE "exhausted"

\* what follows the loop: save the files (CLI); st.success and the download
\* buttons (Streamlit).  tr and out are the transcript and the messages so far.
\* (The CLI's Markdown loop reuses the name turn for the entries it writes;
\* the variable turn keeps the value the loop counter had when the loop was left.)
Finish(tr, out, acc, rej) ==
    LET msg == IF ctl = "cli" THEN MSG_SAVED
               ELSE IF acc \/ rej THEN MSG_FINISHED ELSE MSG_STOPPED
        out2 == Append(out, msg)
    IN /\ pc' = "done"
       /\ output' = out2
       /\ exported' = Export(tr)
       /\ history' = Append(history, [outcome |-> Outcome(ctl, out2, acc, rej),
                                      messages |-> out2])
       /\ UNCHANGED calls

\* the head of the while loop, reached with the given values of the locals:
\* either the next Customer call is issued or the loop is left
LoopHead(tr, idea, t, acc, rej) ==
    IF LoopCond(ctl, t, max_turns, acc, rej)
    THEN /\ turn' = t + 1
         /\ calls' = Append(calls, Call("customer", EvaluatePrompt(idea)))
         /\ pc' = "await_customer"
         /\ UNCHANGED << output, exported, history >>
    ELSE /\ turn' = t
         /\ Finish(tr, output, acc, rej)

\* ---------------------------------------------------------------- actions
\* python assistant_mediator.py / the Start Dialogue button: up to the first
\* Generator call
Start ==
    /\ pc \in {"idle"} \cup Ended
    /\ runs < MaxRuns
    /\ Len(transcript) <= MaxCarry
    /\ runs' = runs + 1
    /\ max_turns' \in MaxTurnsValues(ctl)
    /\ transcript' = IF ctl = "cli" THEN <<>> ELSE transcript
    /\ run_base' = Len(transcript')
    /\ exported' = IF ctl = "cli" THEN NoExport ELSE exported
    /\ calls' = << Call("consultant", ProposePrompt) >>
    /\ output' = <<>>
    /\ turn' = 0
    /\ consultant_reply' = <<>>
    /\ customer_reply' = <<>>
    /\ consultant_user' = NoPrompt
    /\ accepted' = FALSE
    /\ rejected' = FALSE
    /\ pc' = "await_first"
    /\ UNCHANGED << ctl, history >>

\* the first Consultant call returns raw
FirstReturn(raw) ==
    /\ pc = "await_first"
    /\ LET r == Strip(raw)
           tr == Append(transcript, Entry("consultant", r))
       IN /\ consultant_reply' = r
          /\ transcript' = tr
          /\ accepted' = FALSE
          /\ rejected' = FALSE
          /\ LoopHead(tr, r, 0, FALSE, FALSE)
    /\ UNCHANGED << ctl, max_turns, customer_reply, consultant_user, run_base, runs >>

\* the Customer call returns raw
CustomerReturn(raw) ==
    /\ pc = "await_customer"
    /\ LET r == Strip(raw)
           tr == Append(transcript, Entry("customer", r))
           acc == Accepts(r)
           rej == Rejects(r)
       IN /\ customer_reply' = r
          /\ transcript' = tr
          /\ accepted' = IF ctl = "st" THEN acc ELSE accepted
          /\ rejected' = IF ctl = "st" THEN rej ELSE rejected
          /\ IF AsksConsultant(acc)
             THEN /\ consultant_user' = ConsultantPrompt(ctl, r, acc, rej, consultant_user)
                  /\ calls' = Append(calls, Call("consultant", consultant_user'))
                  /\ pc' = "await_consultant"
                  /\ UNCHANGED << turn, output, exported, history >>
             ELSE IF ctl = "cli"
             THEN \* print, break
                  /\ consultant_user' = consultant_user
                  /\ turn' = turn
                  /\ Finish(tr, Append(output, MSG_ACCEPTED), FALSE, FALSE)
             ELSE \* no call; back to the head of the loop
                  /\ consultant_user' = ConsultantPrompt(ctl, r, acc, rej, consultant_user)
                  /\ LoopHead(tr, consultant_reply, turn, acc, rej)
    /\ UNCHANGED << ctl, max_turns, consultant_reply, run_base, runs >>

\* ConsultantReturn without the append of the refinement
ConsultantReturnNoAppend(raw) ==
    /\ pc = "await_consultant"
    /\ LET r == Strip(raw)
       IN /\ consultant_reply' = r
          /\ transcript' = transcript
          /\ LoopHead(transcript, r, turn, accepted, rejected)
    /\ UNCHANGED << ctl, max_turns, customer_reply, consultant_user, accepted,
                    rejected, run_base, runs >>

\* the in-loop Consultant call returns raw
ConsultantReturn(raw) ==
    /\ pc = "await_consultant"
    /\ LET r == Strip(raw)
           tr == Append(transcript, Entry("consultant", r))
       IN /\ consultant_reply' = r
          /\ transcript' = tr
          /\ LoopHead(tr, r, turn, accepted, rejected)
    /\ UNCHANGED << ctl, max_turns, customer_reply, consultant_user, accepted,
                    rejected, run_base, runs >>

\* Fail with the call issued again after the exception
FailThenRetry ==
    /\ pc \in Awaiting
    /\ calls' = Append(calls, calls[Len(calls)])
    /\ history' = Append(history, [outcome |-> "failed", messages |-> output])
    /\ UNCHANGED << ctl, pc, max_turns, turn, transcript, consultant_reply,
                    customer_reply, consultant_user, accepted, rejected, output,
                    exported, run_base, runs >>

\* the Generator call raises: nothing catches it, main / the script run ends
Fail ==
    /\ pc \in Awaiting
    /\ pc' = "failed"
    /\ exported' = NoExport
    /\ history' = Append(history, [outcome |-> "failed", messages |-> output])
    /\ UNCHANGED << ctl, max_turns, turn, transcript, consultant_reply, customer_reply,
                    consultant_user, accepted, rejected, output, calls, run_base, runs >>

\* a script run that does not take the Start branch: the locals of the
\* previous run and its status message are gone
Forget ==
    /\ pc' = "idle"
    /\ turn' = 0
    /\ consultant_reply' = <<>>
    /\ customer_reply' = <<>>
    /\ consultant_user' = NoPrompt
    /\ accepted' = FALSE
    /\ rejected' = FALSE
    /\ output' = <<>>
    /\ calls' = <<>>
    /\ run_base' = 0

\* the Clear Transcript button: pop the transcript, rerun
Clear ==
    /\ ctl = "st"
    /\ pc \in {"idle"} \cup Ended
    /\ transcript' = <<>>
    /\ exported' = NoExport
    /\ max_turns' \in MaxTurnsValues(ctl)
    /\ Forget
    /\ UNCHANGED << ctl, runs, history >>

\* a script run with neither button pressed: the transcript is shown and the
\* download buttons are rebuilt
Rerun ==
    /\ ctl = "st"
    /\ pc \in {"idle"} \cup Ended
    /\ exported' = IF transcript # <<>> THEN Export(transcript) ELSE NoExport
    /\ max_turns' \in MaxTurnsValues(ctl)
    /\ Forget
    /\ UNCHANGED << ctl, transcript, runs, history >>

Returns ==
    \/ \E raw \in ConsultantRaw : FirstReturn(raw)
    \/ \E raw \in CustomerRaw : CustomerReturn(raw)
    \/ \E raw \in ConsultantRaw : ConsultantReturn(raw)

Next ==
    \/ Start
    \/ \E raw \in ConsultantRaw : FirstReturn(raw)
    \/ \E raw \in CustomerRaw : CustomerReturn(raw)
    \/ \E raw \in ConsultantRaw : ConsultantReturn(raw)
    \/ Fail
    \/ Clear
    \/ Rerun

Spec == Init /\ [][Next]_vars

\* every issued Generator call returns or raises
FairSpec == Spec /\ WF_vars(Returns \/ Fail)


\* ---------------------------------------------------------------- the run
\* number of entries appended by the current run (none when no run is in scope)
RunLen == IF pc = "idle" THEN 0 ELSE Len(transcript) - run_base
RunEntry(i) == transcript[run_base + i]

\* call k of a run produces entry k of the run
NumCalls(role) == Cardinality({k \in 1..Len(calls) : calls[k].role = role})

IsCustomerEntry(i) == RunEntry(i).role = "customer"
MatchesAccept(i) == is_match(RunEntry(i).content, ACCEPT_PATTERNS)
MatchesReject(i) == is_match(RunEntry(i).content, REJECT_PATTERNS)

RunOutcome == Outcome(ctl, output, accepted, rejected)

\* ---------------------------------------------------------------- claims

\* C1: for max_turns = N >= 1 a run never issues more than N Customer calls,
\* a Customer call is issued only while fewer than N Customer turns were made,
\* and, every call returning or raising, a started run ends.
C1_BudgetBoundsRun ==
    /\ [](max_turns >= 1 => NumCalls("customer") <= max_turns)
    /\ [][(max_turns' >= 1 /\ pc' = "await_customer") => (turn < max_turns' /\ turn' = turn + 1)]_vars
    /\ (pc \in Awaiting ~> pc \in Ended)

\* a run with N = max_turns Customer turns, none accepting or rejecting, has ended
C1_Witness ==
    /\ pc = "done"
    /\ max_turns = MaxTurns
    /\ NumCalls("customer") = max_turns
    /\ \A i \in 1..RunLen : ~MatchesAccept(i) /\ ~MatchesReject(i)

\* C2: a Customer reply that matches an Accept pattern is the last entry the
\* run appends: the run has ended Accepted and every call issued has returned.
C2_AcceptEndsRun ==
    \A i \in 1..RunLen :
        (IsCustomerEntry(i) /\ MatchesAccept(i)) =>
            /\ i = RunLen
            /\ pc = "done"
            /\ RunOutcome = "accepted"
            /\ Len(calls) = RunLen

\* a run ended by an accepting reply on its second Customer turn
C2_Witness ==
    /\ pc = "done"
    /\ RunLen = 4
    /\ IsCustomerEntry(4) /\ MatchesAccept(4)

\* C3: a Customer reply that matches both an Accept and a Reject pattern ends the
\* run Accepted; the new-idea prompt carrying it is never sent and no Consultant
\* turn follows it.
C3_AcceptWinsTies ==
    \A i \in 1..RunLen :
        (IsCustomerEntry(i) /\ MatchesAccept(i) /\ MatchesReject(i)) =>
            /\ i = RunLen
            /\ pc = "done"
            /\ RunOutcome = "accepted"
            /\ \A k \in 1..Len(calls) :
                   calls[k].prompt # NewIdeaPrompt(RunEntry(i).content)

\* a run has ended on a reply that matches both sets
C3_Witness ==
    /\ pc = "done"
    /\ RunLen >= 2
    /\ IsCustomerEntry(RunLen) /\ MatchesAccept(RunLen) /\ MatchesReject(RunLen)


RejectOnly(i) == IsCustomerEntry(i) /\ MatchesReject(i) /\ ~MatchesAccept(i)
Challenge(i)  == IsCustomerEntry(i) /\ ~MatchesReject(i) /\ ~MatchesAccept(i)

\* the Customer entry at position i of a run is the run's Customer turn i \div 2
TurnOf(i) == i \div 2

\* C4: after a Customer reply that matches Reject and not Accept, the next call
\* of the run is a Consultant call with the different-idea prompt carrying that
\* reply, and the text it returns is the current idea.
C4_RejectAsksNewIdea ==
    \A i \in 1..RunLen :
        RejectOnly(i) =>
            /\ Len(calls) >= i + 1
            /\ calls[i + 1] = Call("consultant", NewIdeaPrompt(RunEntry(i).content))
            /\ (RunLen = i + 1) =>
                   /\ RunEntry(i + 1).role = "consultant"
                   /\ consultant_reply = RunEntry(i + 1).content

\* the Consultant has answered a rejection
C4_Witness ==
    /\ RunLen = 3
    /\ RejectOnly(2)
    /\ consultant_reply = RunEntry(3).content
    /\ consultant_user = NewIdeaPrompt(customer_reply)

\* C5: after a Customer reply that matches Reject and not Accept, with
\* turn < max_turns, once the new idea is obtained the Customer is called again.
C5_RejectContinues ==
    \A i \in 1..RunLen :
        (RejectOnly(i) /\ TurnOf(i) < max_turns /\ RunLen >= i + 1) =>
            /\ Len(calls) >= i + 2
            /\ calls[i + 2].role = "customer"

\* C6: after a Customer reply that matches neither set, the next call is a
\* Consultant call with the refine prompt carrying that reply, the run is not
\* ended as Accepted or Rejected by it, and with turn < max_turns the Customer
\* is called again once the refinement is obtained.
C6_ChallengeRefines ==
    \A i \in 1..RunLen :
        Challenge(i) =>
            /\ Len(calls) >= i + 1
            /\ calls[i + 1] = Call("consultant", RefinePrompt(RunEntry(i).content))
            /\ (RunLen <= i + 1) =>
                   /\ ~accepted /\ ~rejected
                   /\ pc = "done" => RunOutcome = "exhausted"
            /\ (RunLen >= i + 1 /\ TurnOf(i) < max_turns) =>
                   /\ Len(calls) >= i + 2
                   /\ calls[i + 2] =
                          Call("customer", EvaluatePrompt(RunEntry(i + 1).content))

\* a challenge was refined and the Customer is asked again
C6_Witness ==
    /\ pc = "await_customer"
    /\ RunLen = 3
    /\ Challenge(2)
    /\ consultant_user = RefinePrompt(customer_reply)

\* C7: in the final transcript of an Exhausted run every Consultant turn is
\* followed by a Customer turn.
C7_NoDanglingTurn ==
    (pc = "done" /\ max_turns >= 1 /\ RunOutcome = "exhausted") =>
        \A i \in 1..RunLen :
            RunEntry(i).role = "consultant" =>
                (i < RunLen /\ RunEntry(i + 1).role = "customer")

\* C8: a run on an empty transcript with max_turns = N >= 1 and no Customer
\* reply matching Accept or Reject ends Exhausted with exactly 2N turns.
C8_ExhaustedHasTwoNTurns ==
    ( /\ pc = "done"
      /\ run_base = 0
      /\ max_turns >= 1
      /\ \A i \in 1..RunLen : IsCustomerEntry(i) => Challenge(i) ) =>
        /\ RunOutcome = "exhausted"
        /\ Len(transcript) = 2 * max_turns

\* the outcomes of the runs that ended without Generator failure
Reported == {h \in {history[k] : k \in 1..Len(history)} : h.outcome # "failed"}

\* C9: two runs that ended with different outcomes among Accepted, Rejected and
\* Exhausted showed different status messages, and the Exhausted status is
\* shown exactly when the loop was left on the turn budget.
C9_OutcomesDistinguished ==
    /\ \A a, b \in Reported : a.messages = b.messages => a.outcome = b.outcome
    /\ pc = "done" =>
           ((RunOutcome = "exhausted") <=>
                (turn >= max_turns /\ ~Accepts(customer_reply)
                  /\ (ctl = "st" => ~Rejects(customer_reply))))

\* C10: a step in which a Generator call raises ends the run: the transcript,
\* the calls issued and the classification are left as they were, and a failed
\* run issues no further call.
C10_FailureAborts ==
    /\ [][(Len(history') > Len(history) /\ history'[Len(history')].outcome = "failed") =>
              /\ pc' = "failed"
              /\ transcript' = transcript
              /\ calls' = calls
              /\ accepted' = accepted /\ rejected' = rejected
              /\ consultant_user' = consultant_user
              /\ turn' = turn]_vars
    /\ [][(pc = "failed" /\ runs' = runs) => Len(calls') <= Len(calls)]_vars
    /\ [](pc = "failed" => Len(calls) = RunLen + 1)

\* a run failed on a Customer call after one entry was appended
C10_Witness ==
    /\ pc = "failed"
    /\ RunLen = 1
    /\ Len(calls) = 2
    /\ calls[2].role = "customer"


\* C11: however a run ended, once at least one entry was appended the entries
\* are exported: the CLI has written them to its files, the Streamlit session
\* transcript still holds them.
C11_TranscriptExportable ==
    (pc \in Ended /\ RunLen >= 1) =>
        IF ctl = "cli"
        THEN exported = Export(transcript)
        ELSE /\ Len(transcript) = run_base + RunLen
             /\ (exported # NoExport => exported = Export(transcript))

\* C12: in a run started on an empty transcript, entry i (0-based) is a
\* Consultant turn when i is even and a Customer turn when i is odd.
C12_RolesAlternate ==
    (pc # "idle" /\ run_base = 0) =>
        \A i \in 1..Len(transcript) :
            transcript[i].role = IF i % 2 = 1 THEN "consultant" ELSE "customer"

\* a run started on an empty transcript has appended two pairs and a refinement
C12_Witness ==
    /\ pc = "done"
    /\ run_base = 0
    /\ Len(transcript) = 5
    /\ transcript[4].role = "customer"
    /\ transcript[5].role = "consultant"


\* C13: once a run's loop has ended its transcript is final: no later step
\* removes or alters its entries, and a Streamlit run started on the transcript
\* of a run that ended adds no entry to it.
C13_TranscriptFinal ==
    /\ [][(pc = "done" /\ ~(ctl = "cli" /\ runs' # runs)) => transcript' = transcript]_vars
    /\ []((ctl = "st" /\ pc # "idle" /\ run_base > 0 /\ runs >= 2
             /\ history[runs - 1].outcome # "failed")
            => Len(transcript) = run_base)

\* C14: at most one call is outstanding; the call issued after entry k of a run
\* goes to the other role and its prompt carries the content of entry k, the
\* last transcript entry when the call is issued.
C14_CallsInDependencyOrder ==
    /\ RunLen <= Len(calls)
    /\ Len(calls) <= RunLen + 1
    /\ pc \in Awaiting => Len(calls) = RunLen + 1
    /\ \A k \in 1..Len(calls) :
           IF k = 1
           THEN calls[k] = Call("consultant", ProposePrompt)
           ELSE /\ calls[k].prompt.body = RunEntry(k - 1).content
                /\ calls[k].role # RunEntry(k - 1).role
                /\ calls[k].role = "customer" => calls[k].prompt.instr = "challenge_proposal"
                /\ calls[k].role = "consultant" =>
                       calls[k].prompt.instr \in {"propose_different_idea", "refine_same_idea"}

\* the second Customer call of a run is outstanding
C14_Witness ==
    /\ pc = "await_customer"
    /\ RunLen = 3
    /\ Len(calls) = 4
    /\ calls[4].prompt.body = consultant_reply
    /\ calls[3].prompt.body = customer_reply


\* the export shown or written holds one record per transcript entry, in
\* transcript order, with that entry's role and content
ExportMatchesTranscript ==
    /\ Len(exported.json) = Len(transcript)
    /\ Len(exported.md) = Len(transcript)
    /\ \A i \in 1..Len(transcript) :
           /\ exported.json[i] = << "role", transcript[i].role, "content", transcript[i].content >>
           /\ exported.md[i].body = transcript[i].content
           /\ transcript[i].role = "consultant" => exported.md[i].heading = "Consultant"
           /\ transcript[i].role = "customer" => exported.md[i].heading = "Customer"

\* C15: an export holds exactly one record per transcript entry, in order and
\* labelled with the entry's role, and a step that only rebuilds the export
\* leaves the transcript as it was.
C15_ExportReadOnly ==
    /\ []((pc \in {"idle", "done"} /\ exported # NoExport) => ExportMatchesTranscript)
    /\ []((pc = "done") => exported # NoExport)
    /\ [][(pc' = "idle" /\ exported' # NoExport) => transcript' = transcript]_vars

\* the download data was rebuilt from a transcript of three entries
C15_Witness ==
    /\ pc = "idle"
    /\ Len(transcript) = 3
    /\ Len(exported.md) = 3
    /\ exported.md[2].heading = "Customer"
    /\ exported.md[3].heading = "Consultant"


\* Whether a call follows entry k of a run with budget n, and which call, as
\* determined by n and the replies obtained alone (no Reject-only reply among
\* them): after a Consultant entry the Customer is asked while fewer than n
\* Customer turns were made; after a Customer entry the Consultant is asked to
\* refine unless the reply accepts.
CallFollows(k, n) ==
    IF RunEntry(k).role = "consultant" THEN (k - 1) \div 2 < n ELSE ~MatchesAccept(k)

CallAfter(k) ==
    IF RunEntry(k).role = "consultant"
    THEN Call("customer", EvaluatePrompt(RunEntry(k).content))
    ELSE Call("consultant", RefinePrompt(RunEntry(k).content))

\* C16: started on an empty transcript and given no Reject-only reply, the calls
\* issued, the roles appended and whether the run has ended are the same
\* function of max_turns and of the replies obtained in the CLI and in the
\* Streamlit controller, so the two build the same calls and transcript.
C16_ControllersAgree ==
    (pc # "idle" /\ run_base = 0 /\ \A i \in 1..RunLen : ~RejectOnly(i)) =>
        /\ calls[1] = Call("consultant", ProposePrompt)
        /\ Len(calls) = RunLen + (IF RunLen = 0 \/ CallFollows(RunLen, max_turns) THEN 1 ELSE 0)
        /\ \A k \in 1..RunLen :
               /\ RunEntry(k).role = calls[k].role
               /\ k < RunLen => CallFollows(k, max_turns)
               /\ k < Len(calls) => calls[k + 1] = CallAfter(k)
        /\ (pc = "done") <=> (Len(calls) = RunLen)

\* a Streamlit run of two challenged pairs has ended
C16_Witness ==
    /\ ctl = "st"
    /\ pc = "done"
    /\ run_base = 0
    /\ max_turns = 2
    /\ RunLen = 5
    /\ \A i \in 1..RunLen : ~RejectOnly(i)


\* calls of the current run that have returned a text
ReturnedCalls == Len(calls) - (IF pc \in Awaiting \cup {"failed"} THEN 1 ELSE 0)

NumCustomerEntries == Cardinality({i \in 1..RunLen : IsCustomerEntry(i)})

\* a Customer call is outstanding or has raised
CustomerCallUnanswered ==
    \/ pc = "await_customer"
    \/ pc = "failed" /\ calls[Len(calls)].role = "customer"

C18_LastEntryTellsOutcome ==
    (pc = "done" /\ run_base = 0) =>
        LET k == NumCalls("customer")
        IN /\ RunLen >= 1
           /\ (RunEntry(RunLen).role = "customer") <=> (RunOutcome = "accepted")
           /\ (RunOutcome # "accepted") => RunEntry(RunLen).role = "consultant"
           /\ Len(transcript) = IF RunOutcome = "accepted" THEN 2 * k ELSE 2 * k + 1

\* a Streamlit run ended Rejected: the new idea is the last entry
C18_Witness ==
    /\ pc = "done"
    /\ run_base = 0
    /\ RunOutcome = "rejected"
    /\ Len(transcript) = 3
    /\ RejectOnly(2)
    /\ transcript[3].role = "consultant"

====
